---- MODULE Spec2Model ----
(***************************************************************************)
(* Model of package base (base.go): PacketChan, MergePacketChans with its  *)
(* packetHeap, and the Int64Slice set operations Union and Intersect.      *)
(***************************************************************************)
EXTENDS Integers, Sequences, FiniteSets, TLC

\* ------------------------------------------------------------------ bounds
MaxN == 2          \* at most this many input channels
MaxLen == 2        \* at most this many packets per producer
MaxTs == 2         \* timestamps are 1..MaxTs
MaxCap == 1        \* input channel buffer sizes are 0..MaxCap
MaxSliceLen == 3   \* Int64Slice arguments have at most this many elements
MaxVal == 3        \* Int64Slice elements are 1..MaxVal

\* buffer size of the merged output, NewPacketChan(100)
OutBuffer == 100

\* the nil error; a non-nil error is <<i>>, the error producer i closes with
Nil == <<>>
ErrOf(i) == <<i>>

VARIABLES
    \* the input PacketChans in[0..n-1] and their producers
    n,          \* len(in)
    cap,        \* cap[i]: buffer size of in[i].c
    c,          \* c[i]: packets buffered in in[i].c
    closed,     \* closed[i]: in[i].c has been closed
    mu,         \* mu[i]: in[i].mu is held
    err,        \* err[i]: in[i].err
    ppc,        \* ppc[i]: position of producer i
    spkt,       \* spkt[i]: <<packet>> producer i is sending, or <<>>
    carg,       \* carg[i]: the err argument of producer i's Close
    inSent,     \* history: packets whose Send on in[i] has completed
    \* the coordinator goroutine of MergePacketChans
    pc,         \* position
    idx,        \* loop variable i of the priming loop / of the deferred Discards
    cmu, cerr,  \* the range copy c of in[i]: its mu and err fields
    h,          \* packetHeap
    p,          \* <<indexedPacket>> popped in the main loop, or <<>>
    count,
    oarg,       \* the err argument of out.Close
    lastErr,    \* result of the coordinator's last Err() call
    eos,        \* the coordinator's last receive returned nil
    \* the output PacketChan out (the variable captured by the goroutine)
    out_c, out_closed, out_mu, out_err,
    outSent,    \* history: packets sent on out.c
    \* the PacketChan value returned to the caller (a copy of out)
    returned, ret_mu, ret_err,
    \* the consumer of the merged output
    cpc, seenErr,
    \* the Discard goroutines
    dpc, discarded,
    \* Int64Slice operations
    sa, sb, sout, sop

chanVars == <<n, cap, c, closed, mu, err, ppc, spkt, carg, inSent>>
coordVars == <<pc, idx, cmu, cerr, h, p, count, oarg, lastErr, eos>>
outVars == <<out_c, out_closed, out_mu, out_err, outSent>>
retVars == <<returned, ret_mu, ret_err>>
consVars == <<cpc, seenErr>>
discVars == <<dpc, discarded>>
sliceVars == <<sa, sb, sout, sop>>
vars == <<chanVars, coordVars, outVars, retVars, consVars, discVars, sliceVars>>

Chans == 0 .. (n - 1)
Capacities == 0 .. MaxCap
Timestamps == 1 .. MaxTs

\* -------------------------------------------------------------- packetHeap
\* indexedPacket{Packet: pkt, i: i}
IndexedPacket(pkt, i) == [Packet |-> pkt, i |-> i]

\* faulty variant of Less: compares with After instead of Before
LessAfter(x, y) == x.Packet.Timestamp > y.Packet.Timestamp

\* packetHeap.Less on two indexedPackets
Less(x, y) == x.Packet.Timestamp < y.Packet.Timestamp

\* packetHeap.Swap; j and k are 0-based
Swap(hp, j, k) == [hp EXCEPT ![j + 1] = hp[k + 1], ![k + 1] = hp[j + 1]]

\* container/heap up(h, j)
RECURSIVE up(_, _)
up(hp, j) ==
    LET i == (j - 1) \div 2
    IN  IF j <= 0 \/ i = j \/ ~Less(hp[j + 1], hp[i + 1])
        THEN hp
        ELSE up(Swap(hp, i, j), i)

\* container/heap down(h, i0, n)
RECURSIVE down(_, _, _)
down(hp, i, len) ==
    LET j1 == 2 * i + 1
        j2 == j1 + 1
        j  == IF j2 < len /\ Less(hp[j2 + 1], hp[j1 + 1]) THEN j2 ELSE j1
    IN  IF j1 >= len
        THEN hp
        ELSE IF ~Less(hp[j + 1], hp[i + 1])
             THEN hp
             ELSE down(Swap(hp, i, j), j, len)

\* faulty variant of HeapPush: the new element is appended and not sifted up
HeapPushNoUp(hp, x) == Append(hp, x)

\* heap.Push(&h, x): append, then up(h.Len()-1)
HeapPush(hp, x) == up(Append(hp, x), Len(hp))

\* heap.Pop(&h): swap first and last, down(0, n), remove and return the last
HeapPopped(hp) ==
    LET last == Len(hp) - 1
    IN  down(Swap(hp, 0, last), 0, last)
HeapPopValue(hp) == HeapPopped(hp)[Len(hp)]
HeapPopRest(hp) == SubSeq(HeapPopped(hp), 1, Len(hp) - 1)

\* ------------------------------------------------------------- PacketChan
\* a *Packet is <<>> (nil) or <<packet>>
Packet(ts, i, k) == [Timestamp |-> ts, src |-> i, seq |-> k]

\* timestamp of the last packet producer i has produced (0 if none)
LastTs(i) ==
    IF spkt[i] # <<>> THEN spkt[i][1].Timestamp
    ELSE IF inSent[i] # <<>> THEN inSent[i][Len(inSent[i])].Timestamp
    ELSE 0

\* <-p.c can proceed on in[i]: a buffered packet, a sender waiting, or closed
RecvReady(i) == Len(c[i]) > 0 \/ ppc[i] = "send" \/ closed[i]

\* the value <-p.c yields on in[i]: nil exactly at end-of-stream
RecvValue(i) ==
    IF Len(c[i]) > 0 THEN <<Head(c[i])>>
    ELSE IF ppc[i] = "send" THEN spkt[i]
    ELSE <<>>

\* the effect of <-p.c on in[i] and on a sender handing its packet over
RecvUpdate(i) ==
    IF Len(c[i]) > 0
    THEN /\ c' = [c EXCEPT ![i] = Tail(c[i])]
         /\ UNCHANGED <<ppc, spkt, inSent>>
    ELSE IF ppc[i] = "send"
    THEN /\ ppc' = [ppc EXCEPT ![i] = "run"]
         /\ spkt' = [spkt EXCEPT ![i] = <<>>]
         /\ inSent' = [inSent EXCEPT ![i] = Append(inSent[i], spkt[i][1])]
         /\ UNCHANGED c
    ELSE UNCHANGED <<c, ppc, spkt, inSent>>

\* a producer picks its next packet, timestamps non-decreasing, and calls Send
Produce(i) ==
    /\ ppc[i] = "run"
    /\ Len(inSent[i]) < MaxLen
    /\ \E ts \in Timestamps :
          /\ ts >= LastTs(i)
          /\ spkt' = [spkt EXCEPT ![i] = <<Packet(ts, i, Len(inSent[i]))>>]
    /\ ppc' = [ppc EXCEPT ![i] = "send"]
    /\ UNCHANGED <<n, cap, c, closed, mu, err, carg, inSent>>
    /\ UNCHANGED <<coordVars, outVars, retVars, consVars, discVars, sliceVars>>

\* PacketChan.Send: p.c <- pkt completes into free buffer space
Send(i) ==
    /\ ppc[i] = "send"
    /\ Len(c[i]) < cap[i]
    /\ c' = [c EXCEPT ![i] = Append(c[i], spkt[i][1])]
    /\ inSent' = [inSent EXCEPT ![i] = Append(inSent[i], spkt[i][1])]
    /\ spkt' = [spkt EXCEPT ![i] = <<>>]
    /\ ppc' = [ppc EXCEPT ![i] = "run"]
    /\ UNCHANGED <<n, cap, closed, mu, err, carg>>
    /\ UNCHANGED <<coordVars, outVars, retVars, consVars, discVars, sliceVars>>

\* PacketChan.Close(err), p.mu.Lock(); the producer closes with nil or its error
CloseLock(i) ==
    /\ ppc[i] = "run"
    /\ ~mu[i]
    /\ \E e \in {Nil, ErrOf(i)} : carg' = [carg EXCEPT ![i] = e]
    /\ mu' = [mu EXCEPT ![i] = TRUE]
    /\ ppc' = [ppc EXCEPT ![i] = "close_set"]
    /\ UNCHANGED <<n, cap, c, closed, err, spkt, inSent>>
    /\ UNCHANGED <<coordVars, outVars, retVars, consVars, discVars, sliceVars>>

\* faulty variant of CloseSetErr: Close does not store its argument
CloseNoStore(i) ==
    /\ ppc[i] = "close_set"
    /\ ppc' = [ppc EXCEPT ![i] = "close_unlock"]
    /\ UNCHANGED <<n, cap, c, closed, mu, err, spkt, carg, inSent>>
    /\ UNCHANGED <<coordVars, outVars, retVars, consVars, discVars, sliceVars>>

\* PacketChan.Close(err), p.err = err
CloseSetErr(i) ==
    /\ ppc[i] = "close_set"
    /\ err' = [err EXCEPT ![i] = carg[i]]
    /\ ppc' = [ppc EXCEPT ![i] = "close_unlock"]
    /\ UNCHANGED <<n, cap, c, closed, mu, spkt, carg, inSent>>
    /\ UNCHANGED <<coordVars, outVars, retVars, consVars, discVars, sliceVars>>

\* PacketChan.Close(err), p.mu.Unlock()
CloseUnlock(i) ==
    /\ ppc[i] = "close_unlock"
    /\ mu' = [mu EXCEPT ![i] = FALSE]
    /\ ppc' = [ppc EXCEPT ![i] = "close_chan"]
    /\ UNCHANGED <<n, cap, c, closed, err, spkt, carg, inSent>>
    /\ UNCHANGED <<coordVars, outVars, retVars, consVars, discVars, sliceVars>>

\* PacketChan.Close(err), close(p.c)
CloseChan(i) ==
    /\ ppc[i] = "close_chan"
    /\ closed' = [closed EXCEPT ![i] = TRUE]
    /\ ppc' = [ppc EXCEPT ![i] = "done"]
    /\ UNCHANGED <<n, cap, c, mu, err, spkt, carg, inSent>>
    /\ UNCHANGED <<coordVars, outVars, retVars, consVars, discVars, sliceVars>>

Producer(i) ==
    \/ Produce(i)
    \/ Send(i)
    \/ CloseLock(i)
    \/ CloseSetErr(i)
    \/ CloseUnlock(i)
    \/ CloseChan(i)

\* faulty variant of DiscardStep: the goroutine receives once instead of ranging
DiscardOnce(i) ==
    /\ dpc[i] = "run"
    /\ RecvReady(i)
    /\ RecvUpdate(i)
    /\ discarded' = [discarded EXCEPT ![i] =
                        discarded[i] + (IF RecvValue(i) # <<>> THEN 1 ELSE 0)]
    /\ dpc' = [dpc EXCEPT ![i] = "done"]
    /\ UNCHANGED <<n, cap, closed, mu, err, carg>>
    /\ UNCHANGED <<coordVars, outVars, retVars, consVars, sliceVars>>

\* the goroutine of PacketChan.Discard on in[i]: for _ = range p.c
DiscardStep(i) ==
    /\ dpc[i] = "run"
    /\ RecvReady(i)
    /\ RecvUpdate(i)
    /\ IF RecvValue(i) # <<>>
       THEN /\ discarded' = [discarded EXCEPT ![i] = discarded[i] + 1]
            /\ UNCHANGED dpc
       ELSE /\ dpc' = [dpc EXCEPT ![i] = "done"]
            /\ UNCHANGED discarded
    /\ UNCHANGED <<n, cap, closed, mu, err, carg>>
    /\ UNCHANGED <<coordVars, outVars, retVars, consVars, sliceVars>>

\* ------------------------------------------------------- MergePacketChans
\* for i, c := range in: the loop head copies in[i] (its mu and err) into c
PrimeCopy ==
    /\ pc = "prime"
    /\ IF idx < n
       THEN /\ cmu' = mu[idx]
            /\ cerr' = err[idx]
            /\ pc' = "prime_recv"
       ELSE /\ pc' = "loop"
            /\ UNCHANGED <<cmu, cerr>>
    /\ UNCHANGED <<idx, h, p, count, oarg, lastErr, eos>>
    /\ UNCHANGED <<chanVars, outVars, retVars, consVars, discVars, sliceVars>>

\* if pkt := <-c.Receive(); pkt != nil { heap.Push(&h, indexedPacket{pkt, i}) }
PrimeRecv ==
    /\ pc = "prime_recv"
    /\ RecvReady(idx)
    /\ RecvUpdate(idx)
    /\ h' = IF RecvValue(idx) # <<>>
            THEN HeapPush(h, IndexedPacket(RecvValue(idx)[1], idx))
            ELSE h
    /\ eos' = (RecvValue(idx) = <<>>)
    /\ pc' = "prime_err"
    /\ UNCHANGED <<idx, cmu, cerr, p, count, oarg, lastErr>>
    /\ UNCHANGED <<n, cap, closed, mu, err, carg>>
    /\ UNCHANGED <<outVars, retVars, consVars, discVars, sliceVars>>

\* if err := c.Err(); err != nil { out.Close(err); return }
\* c.Err() locks the copied mutex c.mu and reads the copied c.err
PrimeErr ==
    /\ pc = "prime_err"
    /\ ~cmu
    /\ lastErr' = cerr
    /\ IF cerr # Nil
       THEN /\ oarg' = cerr
            /\ pc' = "close_lock"
            /\ UNCHANGED idx
       ELSE /\ idx' = idx + 1
            /\ pc' = "prime"
            /\ UNCHANGED oarg
    /\ UNCHANGED <<cmu, cerr, h, p, count, eos>>
    /\ UNCHANGED <<chanVars, outVars, retVars, consVars, discVars, sliceVars>>

\* faulty variant of MainPop: the minimum is read but left in the heap
MainPeek ==
    /\ pc = "loop"
    /\ IF Len(h) > 0
       THEN /\ p' = <<HeapPopValue(h)>>
            /\ count' = count + 1
            /\ pc' = "main_recv"
            /\ UNCHANGED <<oarg, h>>
       ELSE /\ oarg' = Nil
            /\ pc' = "close_lock"
            /\ UNCHANGED <<p, h, count>>
    /\ UNCHANGED <<idx, cmu, cerr, lastErr, eos>>
    /\ UNCHANGED <<chanVars, outVars, retVars, consVars, discVars, sliceVars>>

\* for h.Len() > 0 { p := heap.Pop(&h); count++ ... }; after the loop out.Close(nil)
MainPop ==
    /\ pc = "loop"
    /\ IF Len(h) > 0
       THEN /\ p' = <<HeapPopValue(h)>>
            /\ h' = HeapPopRest(h)
            /\ count' = count + 1
            /\ pc' = "main_recv"
            /\ UNCHANGED oarg
       ELSE /\ oarg' = Nil
            /\ pc' = "close_lock"
            /\ UNCHANGED <<p, h, count>>
    /\ UNCHANGED <<idx, cmu, cerr, lastErr, eos>>
    /\ UNCHANGED <<chanVars, outVars, retVars, consVars, discVars, sliceVars>>

\* faulty variant of MainRecv: the packet received in the main loop is not pushed
MainRecvNoPush ==
    /\ pc = "main_recv"
    /\ RecvReady(p[1].i)
    /\ RecvUpdate(p[1].i)
    /\ eos' = (RecvValue(p[1].i) = <<>>)
    /\ pc' = "main_send"
    /\ UNCHANGED <<idx, cmu, cerr, h, p, count, oarg, lastErr>>
    /\ UNCHANGED <<n, cap, closed, mu, err, carg>>
    /\ UNCHANGED <<outVars, retVars, consVars, discVars, sliceVars>>

\* if pkt := <-in[p.i].Receive(); pkt != nil { heap.Push(&h, indexedPacket{pkt, p.i}) }
MainRecv ==
    /\ pc = "main_recv"
    /\ RecvReady(p[1].i)
    /\ RecvUpdate(p[1].i)
    /\ h' = IF RecvValue(p[1].i) # <<>>
            THEN HeapPush(h, IndexedPacket(RecvValue(p[1].i)[1], p[1].i))
            ELSE h
    /\ eos' = (RecvValue(p[1].i) = <<>>)
    /\ pc' = "main_send"
    /\ UNCHANGED <<idx, cmu, cerr, p, count, oarg, lastErr>>
    /\ UNCHANGED <<n, cap, closed, mu, err, carg>>
    /\ UNCHANGED <<outVars, retVars, consVars, discVars, sliceVars>>

\* faulty variant of MainSend: the error check comes before the send, so the
\* popped packet is not sent in this step
MainSendSkipped ==
    /\ pc = "main_send"
    /\ pc' = "main_err"
    /\ UNCHANGED <<idx, cmu, cerr, h, p, count, oarg, lastErr, eos>>
    /\ UNCHANGED <<chanVars, outVars, retVars, consVars, discVars, sliceVars>>

\* out.c <- p.Packet
MainSend ==
    /\ pc = "main_send"
    /\ Len(out_c) < OutBuffer
    /\ out_c' = Append(out_c, p[1].Packet)
    /\ outSent' = Append(outSent, p[1].Packet)
    /\ pc' = "main_err"
    /\ UNCHANGED <<idx, cmu, cerr, h, p, count, oarg, lastErr, eos>>
    /\ UNCHANGED <<out_closed, out_mu, out_err>>
    /\ UNCHANGED <<chanVars, retVars, consVars, discVars, sliceVars>>

\* faulty variant of MainErr: a failing input makes the coordinator close the
\* output with an error of its own instead of the input's error
MainErrGeneric ==
    /\ pc = "main_err"
    /\ ~mu[p[1].i]
    /\ lastErr' = err[p[1].i]
    /\ IF err[p[1].i] # Nil
       THEN /\ oarg' = ErrOf(n)
            /\ pc' = "close_lock"
       ELSE /\ pc' = "loop"
            /\ UNCHANGED oarg
    /\ UNCHANGED <<idx, cmu, cerr, h, p, count, eos>>
    /\ UNCHANGED <<chanVars, outVars, retVars, consVars, discVars, sliceVars>>

\* if err := in[p.i].Err(); err != nil { out.Close(err); return }
MainErr ==
    /\ pc = "main_err"
    /\ ~mu[p[1].i]
    /\ lastErr' = err[p[1].i]
    /\ IF err[p[1].i] # Nil
       THEN /\ oarg' = err[p[1].i]
            /\ pc' = "close_lock"
       ELSE /\ pc' = "loop"
            /\ UNCHANGED oarg
    /\ UNCHANGED <<idx, cmu, cerr, h, p, count, eos>>
    /\ UNCHANGED <<chanVars, outVars, retVars, consVars, discVars, sliceVars>>

\* out.Close(err), p.mu.Lock()
OutCloseLock ==
    /\ pc = "close_lock"
    /\ ~out_mu
    /\ out_mu' = TRUE
    /\ pc' = "close_set"
    /\ UNCHANGED <<idx, cmu, cerr, h, p, count, oarg, lastErr, eos>>
    /\ UNCHANGED <<out_c, out_closed, out_err, outSent>>
    /\ UNCHANGED <<chanVars, retVars, consVars, discVars, sliceVars>>

\* out.Close(err), p.err = err
OutCloseSetErr ==
    /\ pc = "close_set"
    /\ out_err' = oarg
    /\ pc' = "close_unlock"
    /\ UNCHANGED <<idx, cmu, cerr, h, p, count, oarg, lastErr, eos>>
    /\ UNCHANGED <<out_c, out_closed, out_mu, outSent>>
    /\ UNCHANGED <<chanVars, retVars, consVars, discVars, sliceVars>>

\* out.Close(err), p.mu.Unlock()
OutCloseUnlock ==
    /\ pc = "close_unlock"
    /\ out_mu' = FALSE
    /\ pc' = "close_chan"
    /\ UNCHANGED <<idx, cmu, cerr, h, p, count, oarg, lastErr, eos>>
    /\ UNCHANGED <<out_c, out_closed, out_err, outSent>>
    /\ UNCHANGED <<chanVars, retVars, consVars, discVars, sliceVars>>

\* faulty variant of OutCloseChan: the return after out.Close is missing and
\* the goroutine goes on with its main loop
OutCloseChanNoReturn ==
    /\ pc = "close_chan"
    /\ out_closed' = TRUE
    /\ pc' = "loop"
    /\ UNCHANGED <<idx, cmu, cerr, h, p, count, oarg, lastErr, eos>>
    /\ UNCHANGED <<out_c, out_mu, out_err, outSent>>
    /\ UNCHANGED <<chanVars, retVars, consVars, discVars, sliceVars>>

\* out.Close(err), close(p.c); then the goroutine returns and its defers run
OutCloseChan ==
    /\ pc = "close_chan"
    /\ out_closed' = TRUE
    /\ pc' = "defer"
    /\ idx' = n - 1
    /\ UNCHANGED <<cmu, cerr, h, p, count, oarg, lastErr, eos>>
    /\ UNCHANGED <<out_c, out_mu, out_err, outSent>>
    /\ UNCHANGED <<chanVars, retVars, consVars, discVars, sliceVars>>

\* faulty variant of RunDefer: the Discard deferred for in[0] is not run
RunDeferSkipFirst ==
    /\ pc = "defer"
    /\ IF idx > 0
       THEN /\ dpc' = [dpc EXCEPT ![idx] = "run"]
            /\ idx' = idx - 1
            /\ UNCHANGED pc
       ELSE /\ pc' = "done"
            /\ UNCHANGED <<dpc, idx>>
    /\ UNCHANGED <<cmu, cerr, h, p, count, oarg, lastErr, eos, discarded>>
    /\ UNCHANGED <<chanVars, outVars, retVars, consVars, sliceVars>>

\* the deferred in[i].Discard() calls run last-registered first, then the
\* deferred log call; Discard starts its goroutine
RunDefer ==
    /\ pc = "defer"
    /\ IF idx >= 0
       THEN /\ dpc' = [dpc EXCEPT ![idx] = "run"]
            /\ idx' = idx - 1
            /\ UNCHANGED pc
       ELSE /\ pc' = "done"
            /\ UNCHANGED <<dpc, idx>>
    /\ UNCHANGED <<cmu, cerr, h, p, count, oarg, lastErr, eos, discarded>>
    /\ UNCHANGED <<chanVars, outVars, retVars, consVars, sliceVars>>

Coordinator ==
    \/ PrimeCopy
    \/ PrimeRecv
    \/ PrimeErr
    \/ MainPop
    \/ MainRecv
    \/ MainSend
    \/ MainErr
    \/ OutCloseLock
    \/ OutCloseSetErr
    \/ OutCloseUnlock
    \/ OutCloseChan
    \/ RunDefer

\* return out: the caller receives a copy of the PacketChan struct
Return ==
    /\ ~returned
    /\ returned' = TRUE
    /\ ret_mu' = out_mu
    /\ ret_err' = out_err
    /\ UNCHANGED <<chanVars, coordVars, outVars, consVars, discVars, sliceVars>>

\* the consumer reads the returned value's Receive() channel to end-of-stream
ConsumerRecv ==
    /\ returned
    /\ cpc = "recv"
    /\ Len(out_c) > 0 \/ out_closed
    /\ IF Len(out_c) > 0
       THEN /\ out_c' = Tail(out_c)
            /\ UNCHANGED cpc
       ELSE /\ cpc' = "err"
            /\ UNCHANGED out_c
    /\ UNCHANGED <<out_closed, out_mu, out_err, outSent, seenErr>>
    /\ UNCHANGED <<chanVars, coordVars, retVars, discVars, sliceVars>>

\* then the consumer calls Err() on the returned value
ConsumerErr ==
    /\ cpc = "err"
    /\ ~ret_mu
    /\ seenErr' = ret_err
    /\ cpc' = "done"
    /\ UNCHANGED <<chanVars, coordVars, outVars, retVars, discVars, sliceVars>>

\* --------------------------------------------------------------- Int64Slice
\* faulty variant of SkipLess: the inner loop compares with <= instead of <
RECURSIVE SkipLessOrEqual(_, _, _)
SkipLessOrEqual(b, ib, pos) ==
    IF ib < Len(b) /\ b[ib + 1] <= pos THEN SkipLessOrEqual(b, ib + 1, pos) ELSE ib

\* the inner loop of Union and Intersect: for ib < len(b) && b[ib] < pos { ib++ }
RECURSIVE SkipLess(_, _, _)
SkipLess(b, ib, pos) ==
    IF ib < Len(b) /\ b[ib + 1] < pos THEN SkipLess(b, ib + 1, pos) ELSE ib

\* faulty variant of UnionFrom: an element of b equal to the current element of a is
\* not skipped
RECURSIVE UnionFromNoCollapse(_, _, _, _, _)
UnionFromNoCollapse(a, b, k, ib, out) ==
    IF k > Len(a)
    THEN out \o SubSeq(b, ib + 1, Len(b))
    ELSE LET pos == a[k]
             ib1 == SkipLess(b, ib, pos)
             out1 == out \o SubSeq(b, ib + 1, ib1)
         IN  UnionFromNoCollapse(a, b, k + 1, ib1, Append(out1, pos))

\* the body of Union's loop over a, from a[k] on (k is 1-based, ib 0-based)
RECURSIVE UnionFrom(_, _, _, _, _)
UnionFrom(a, b, k, ib, out) ==
    IF k > Len(a)
    THEN out \o SubSeq(b, ib + 1, Len(b))
    ELSE LET pos == a[k]
             ib1 == SkipLess(b, ib, pos)
             out1 == out \o SubSeq(b, ib + 1, ib1)
             ib2 == IF ib1 < Len(b) /\ b[ib1 + 1] = pos THEN ib1 + 1 ELSE ib1
         IN  UnionFrom(a, b, k + 1, ib2, Append(out1, pos))

\* Int64Slice.Union
Union(a, b) == UnionFrom(a, b, 1, 0, <<>>)

\* faulty variant of IntersectFrom: ib is not advanced past a matched element of b
RECURSIVE IntersectFromNoAdvance(_, _, _, _, _)
IntersectFromNoAdvance(a, b, k, ib, out) ==
    IF k > Len(a)
    THEN out
    ELSE LET pos == a[k]
             ib1 == SkipLess(b, ib, pos)
         IN  IF ib1 < Len(b) /\ b[ib1 + 1] = pos
             THEN IntersectFromNoAdvance(a, b, k + 1, ib1, Append(out, pos))
             ELSE IntersectFromNoAdvance(a, b, k + 1, ib1, out)

\* the body of Intersect's loop over a, from a[k] on
RECURSIVE IntersectFrom(_, _, _, _, _)
IntersectFrom(a, b, k, ib, out) ==
    IF k > Len(a)
    THEN out
    ELSE LET pos == a[k]
             ib1 == SkipLess(b, ib, pos)
         IN  IF ib1 < Len(b) /\ b[ib1 + 1] = pos
             THEN IntersectFrom(a, b, k + 1, ib1 + 1, Append(out, pos))
             ELSE IntersectFrom(a, b, k + 1, ib1, out)

\* Int64Slice.Intersect
Intersect(a, b) == IntersectFrom(a, b, 1, 0, <<>>)

\* a is sorted in advance, as Union and Intersect require
Ascending(a) == \A j \in 1 .. (Len(a) - 1) : a[j] <= a[j + 1]

Values == 1 .. MaxVal
Slices == UNION {[1 .. len -> Values] : len \in 0 .. MaxSliceLen}
AscendingSlices == {a \in Slices : Ascending(a)}

\* a caller computes a.Union(b)
DoUnion ==
    /\ sop = "none"
    /\ sout' = Union(sa, sb)
    /\ sop' = "union"
    /\ UNCHANGED <<sa, sb>>
    /\ UNCHANGED <<chanVars, coordVars, outVars, retVars, consVars, discVars>>

\* a caller computes a.Intersect(b)
DoIntersect ==
    /\ sop = "none"
    /\ sout' = Intersect(sa, sb)
    /\ sop' = "intersect"
    /\ UNCHANGED <<sa, sb>>
    /\ UNCHANGED <<chanVars, coordVars, outVars, retVars, consVars, discVars>>

\* --------------------------------------------------------------------- Spec
\* the state after MergePacketChans(in) has started its goroutine, with len(in)
\* in ns; ret tells whether the caller already holds the returned copy of out
MergeInit(ns, ret) ==
    /\ n \in ns
    /\ cap \in [Chans -> Capacities]
    /\ c = [i \in Chans |-> <<>>]
    /\ closed = [i \in Chans |-> FALSE]
    /\ mu = [i \in Chans |-> FALSE]
    /\ err = [i \in Chans |-> Nil]
    /\ ppc = [i \in Chans |-> "run"]
    /\ spkt = [i \in Chans |-> <<>>]
    /\ carg = [i \in Chans |-> Nil]
    /\ inSent = [i \in Chans |-> <<>>]
    /\ pc = "prime"
    /\ idx = 0
    /\ cmu = FALSE
    /\ cerr = Nil
    /\ h = <<>>
    /\ p = <<>>
    /\ count = 0
    /\ oarg = Nil
    /\ lastErr = Nil
    /\ eos = FALSE
    /\ out_c = <<>>
    /\ out_closed = FALSE
    /\ out_mu = FALSE
    /\ out_err = Nil
    /\ outSent = <<>>
    /\ returned = ret
    /\ ret_mu = FALSE
    /\ ret_err = Nil
    /\ cpc = "recv"
    /\ seenErr = Nil
    /\ dpc = [i \in Chans |-> "none"]
    /\ discarded = [i \in Chans |-> 0]

Init ==
    /\ MergeInit(0 .. MaxN, FALSE)
    /\ sa = <<>>
    /\ sb = <<>>
    /\ sout = <<>>
    /\ sop = "none"

Next ==
    \/ \E i \in Chans : Producer(i)
    \/ \E i \in Chans : DiscardStep(i)
    \/ Coordinator
    \/ Return
    \/ ConsumerRecv
    \/ ConsumerErr

Spec == Init /\ [][Next]_vars

\* The liveness specification starts when MergePacketChans has returned
\* (return out runs right after the go statement, before the goroutine's
\* Close).  Every goroutine that can take a step eventually takes one; as each
\* goroutine takes finitely many steps, weak fairness of the whole step
\* relation is the same condition as weak fairness of each goroutine.
FairInit ==
    /\ MergeInit(0 .. MaxN, TRUE)
    /\ sa = <<>>
    /\ sb = <<>>
    /\ sout = <<>>
    /\ sop = "none"
FairNext ==
    \/ \E i \in Chans : Producer(i)
    \/ \E i \in Chans : DiscardStep(i)
    \/ Coordinator
    \/ ConsumerRecv
    \/ ConsumerErr
FairSpec == FairInit /\ [][FairNext]_vars /\ WF_vars(FairNext)

\* the set operations applied to ascending arguments
SliceInit ==
    /\ MergeInit({0}, FALSE)
    /\ sa \in AscendingSlices
    /\ sb \in AscendingSlices
    /\ sout = <<>>
    /\ sop = "none"
SliceNext ==
    \/ DoUnion
    \/ DoIntersect
SliceSpec == SliceInit /\ [][SliceNext]_vars

\* ------------------------------------------------------------------ claims
\* the packets of source i in sequence q, in order
FromSrc(q, i) == SelectSeq(q, LAMBDA x : x.src = i)

\* every input was closed with a nil error
AllClosedNil == \A i \in Chans : closed[i] /\ carg[i] = Nil

\* the inputs closed with a non-nil error
Failed == {i \in Chans : closed[i] /\ carg[i] # Nil}

\* the coordinator has passed out.Close
OutClosed == out_closed

\* C1: the packets sent on the merged output are in non-decreasing timestamp
\* order (every input is non-decreasing by construction of the producers).
C1_OutputSorted ==
    \A j \in 1 .. (Len(outSent) - 1) :
        outSent[j].Timestamp <= outSent[j + 1].Timestamp

\* C1 witness: both inputs interleave on the output, a later packet of one
\* source going out before an earlier-produced packet's successor
C1_Witness ==
    /\ pc = "done"
    /\ Len(outSent) >= 3
    /\ outSent[1].src # outSent[2].src
    /\ outSent[1].Timestamp < outSent[Len(outSent)].Timestamp

\* C2: when every input is closed with nil and the coordinator has closed the
\* output, it closed it with nil and the output carries exactly the packets
\* sent on every input, each once and in its input's order; a consumer that
\* has seen end-of-stream has received them all.
C2_Complete ==
    (AllClosedNil /\ OutClosed) =>
        /\ oarg = Nil
        /\ out_err = Nil
        /\ \A i \in Chans : FromSrc(outSent, i) = inSent[i]
        /\ \A j \in 1 .. Len(outSent) : outSent[j].src \in Chans
        /\ (cpc # "recv" => out_c = <<>>)

\* C2 witness: two inputs with packets, both closed with nil, output closed
C2_Witness ==
    /\ n = 2
    /\ AllClosedNil
    /\ OutClosed
    /\ cpc # "recv"
    /\ \A i \in Chans : Len(inSent[i]) >= 1

\* C3: if exactly one input was closed with a non-nil error E and every other
\* input with nil, the coordinator closes the output with E, never with nil.
C3_ErrorPropagates ==
    \A i \in Chans :
        (OutClosed /\ Failed = {i} /\ \A k \in Chans : closed[k]) =>
            out_err = carg[i]

\* C4: once the consumer has seen end-of-stream and called Err() on the value
\* MergePacketChans returned, it holds the error given to out.Close.
C4_ConsumerSeesCloseError ==
    cpc = "done" => seenErr = oarg

\* C5: on one PacketChan the error is stored before the channel is closed:
\* a closed channel holds the err given to Close, a channel whose Close has
\* not begun holds nil, and an Err() made after the receive that returned
\* end-of-stream yields the err given to Close.
C5_CloseThenErr ==
    /\ \A i \in Chans : closed[i] => (err[i] = carg[i] /\ ~mu[i])
    /\ \A i \in Chans : ppc[i] \in {"run", "send"} => err[i] = Nil
    /\ (p # <<>> /\ eos /\ pc \notin {"main_recv", "main_send", "main_err"})
          => lastErr = carg[p[1].i]

\* C5 witness: the coordinator saw end-of-stream on a channel closed with an
\* error and then read that error with Err()
C5_Witness ==
    /\ p # <<>>
    /\ eos
    /\ pc = "close_lock"
    /\ lastErr # Nil
    /\ lastErr = carg[p[1].i]

\* C6: under fair scheduling every Send of a producer eventually completes.
C6_NoProducerBlocked ==
    \A i \in 0 .. (MaxN - 1) :
        (i \in Chans /\ ppc[i] = "send") ~> (i \in Chans /\ ppc[i] # "send")

\* C7: when the coordinator has exited a discard task has been started on
\* every input, and none is started before the coordinator stops receiving.
C7_DiscardOnExit ==
    /\ pc = "done" => \A i \in Chans : dpc[i] # "none"
    /\ \A i \in Chans : dpc[i] # "none" => pc \in {"defer", "done"}

\* C7 witness: the coordinator exited on an input error with two inputs
C7_Witness ==
    /\ pc = "done"
    /\ n = 2
    /\ oarg # Nil
    /\ \A i \in Chans : dpc[i] # "none"

\* the packets the coordinator received from in[i]: those it forwarded
\* and those still in (or abandoned in) its heap or popped and not yet sent
HeldFrom(i) ==
    Len(SelectSeq(h, LAMBDA x : x.i = i))
      + (IF p # <<>> /\ p[1].i = i /\ pc \in {"main_recv", "main_send"} THEN 1 ELSE 0)
ReceivedFrom(i) == Len(FromSrc(outSent, i)) + HeldFrom(i)

\* C8: a discard task has terminated only if its channel is closed and
\* empty and every packet the coordinator did not take was dropped by it;
\* once the channel is closed a running discard task terminates.
C8_DiscardTerminates ==
    /\ [](\A i \in Chans :
            dpc[i] = "done" =>
                /\ closed[i]
                /\ c[i] = <<>>
                /\ Len(inSent[i]) = ReceivedFrom(i) + discarded[i])
    /\ \A i \in 0 .. (MaxN - 1) :
          (i \in Chans /\ dpc[i] = "run" /\ closed[i])
              ~> (i \in Chans /\ dpc[i] = "done")

\* C8 witness: a discard task dropped packets and terminated
C8_Witness ==
    \E i \in Chans : dpc[i] = "done" /\ discarded[i] > 0 /\ closed[i]

\* number of occurrences of v in a
Count(a, v) == Cardinality({j \in 1 .. Len(a) : a[j] = v})
Max(x, y) == IF x >= y THEN x ELSE y
Elems(a) == {a[j] : j \in 1 .. Len(a)}

\* C9: for ascending a and b, a.Union(b) is ascending, holds every element
\* of a and of b, and each value occurs max(count in a, count in b) times.
C9_Union ==
    sop = "union" =>
        /\ Ascending(sout)
        /\ Elems(sout) = Elems(sa) \cup Elems(sb)
        /\ \A v \in Values : Count(sout, v) = Max(Count(sa, v), Count(sb, v))

\* C9 witness: a union of inputs with duplicates inside one input and a
\* value common to both
C9_Witness ==
    /\ sop = "union"
    /\ sa = <<1, 1, 2>>
    /\ sb = <<1, 2, 2>>
    /\ sout = <<1, 1, 2, 2>>

\* C10: every element of a.Intersect(b) is in a.Union(b), and
\* len(a.Union(b)) + len(a.Intersect(b)) = len(a) + len(b).
C10_UnionIntersect ==
    sop = "union" =>
        /\ Elems(Intersect(sa, sb)) \subseteq Elems(sout)
        /\ Len(sout) + Len(Intersect(sa, sb)) = Len(sa) + Len(sb)

\* C10 witness: a union whose arguments share elements
C10_Witness ==
    /\ sop = "union"
    /\ Len(Intersect(sa, sb)) = 2
    /\ Len(sout) = 3

\* C11: a.Union(b) = b.Union(a) and a.Intersect(b) = b.Intersect(a) as
\* sequences, and a.Union(a) = a and a.Intersect(a) = a.
C11_CommutativeIdempotent ==
    /\ sop = "union" => (sout = Union(sb, sa) /\ (sa = sb => sout = sa))
    /\ sop = "intersect" => (sout = Intersect(sb, sa) /\ (sa = sb => sout = sa))

\* C11 witness: an intersection of two different arguments with duplicates
\* that share elements
C11_Witness ==
    /\ sop = "intersect"
    /\ sa = <<1, 2, 2>>
    /\ sb = <<2, 2, 3>>
    /\ sout = <<2, 2>>

\* a task is at its store to in[i].err, inside Close and holding in[i].mu
WritesInErr(i) == ppc[i] = "close_set"
\* the coordinator is at its range copy of in[i], which reads in[i].err and
\* in[i].mu without taking in[i].mu
CopiesIn(i) == pc = "prime" /\ idx = i
\* the coordinator is at its store to out.err, inside out.Close
WritesOutErr == pc = "close_set"
\* the caller is at return out, which copies out.err without taking out.mu
CopiesOut == ~returned

\* C12: no state has one task at its write of a channel's error slot while
\* another is at a read or copy of that slot made without the channel's lock.
C12_ErrSlotLockGuarded ==
    /\ \A i \in Chans : ~(WritesInErr(i) /\ CopiesIn(i))
    /\ ~(WritesOutErr /\ CopiesOut)

\* the coordinator is in its priming loop
Priming == pc \in {"prime", "prime_recv", "prime_err"}
\* the coordinator is in or past out.Close
Closing == pc \in {"close_lock", "close_set", "close_unlock", "close_chan", "defer", "done"}

\* C13: while priming nothing has been forwarded, channels are primed in
\* index order and every packet received is on the heap tagged with its
\* channel; and the coordinator goes on to the next channel after an
\* end-of-stream only if that channel was closed with a nil error.
C13_PrimingStep ==
    /\ Priming => outSent = <<>>
    /\ Priming => \A j \in 1 .. Len(h) : h[j].i <= idx /\ h[j].i = h[j].Packet.src
    /\ (pc = "prime" /\ idx > 0 /\ eos) => carg[idx - 1] = Nil

\* sequence q extends sequence r
Extends(q, r) == Len(q) >= Len(r) /\ SubSeq(q, 1, Len(r)) = r

\* C14: the popped packet has been sent when the error of its source is
\* checked, so every packet popped has been sent when the coordinator closes
\* the output; what was sent stays sent, a consumer at end-of-stream has
\* taken all of it, and nothing is sent once the output is closed.
C14_SendBeforeErrCheck ==
    /\ [](pc = "main_err" =>
            (outSent # <<>> /\ outSent[Len(outSent)] = p[1].Packet))
    /\ [](Closing => count = Len(outSent))
    /\ [](cpc # "recv" => out_c = <<>>)
    /\ [][Extends(outSent', outSent)]_vars
    /\ [][Closing => outSent' = outSent]_vars

\* C14 witness: the iteration that ends the merge with an error, its packet
\* already sent
C14_Witness ==
    /\ pc = "close_lock"
    /\ oarg # Nil
    /\ p # <<>>
    /\ Len(outSent) >= 2
    /\ outSent[Len(outSent)] = p[1].Packet

\* the packets in the heap
HeapPackets == {h[j].Packet : j \in 1 .. Len(h)}
Sent == {outSent[j] : j \in 1 .. Len(outSent)}

\* C15: the heap holds at most N indexed packets, at most one per source,
\* each received from the source it is tagged with and not yet forwarded.
C15_HeapInvariant ==
    /\ Len(h) <= n
    /\ \A j, k \in 1 .. Len(h) : h[j].i = h[k].i => j = k
    /\ \A j \in 1 .. Len(h) :
          /\ h[j].i \in Chans
          /\ \E k \in 1 .. Len(inSent[h[j].i]) : inSent[h[j].i][k] = h[j].Packet
          /\ h[j].Packet \notin Sent

\* C15 witness: in the main loop, after a packet was forwarded, the heap
\* holds one packet of each of the two sources
C15_Witness ==
    /\ n = 2
    /\ Len(h) = 2
    /\ pc = "main_send"
    /\ Len(outSent) >= 1

\* C16: the output is closed exactly when the coordinator has completed its
\* one call of out.Close: not before or during the call, always once the
\* coordinator runs its defers or has exited; so there is no second call and
\* no send after the close.
C16_ClosedOnce ==
    /\ out_closed <=> pc \in {"defer", "done"}
    /\ out_closed => out_err = oarg

\* C16 witness: the coordinator exited after exhausting two inputs
C16_Witness ==
    /\ pc = "done"
    /\ out_closed
    /\ oarg = Nil
    /\ Len(outSent) >= 2

\* the input the coordinator is receiving from, when it is at a receive
Waited == IF pc = "prime_recv" THEN idx ELSE p[1].i

\* C17: under fair scheduling the coordinator eventually closes the output
\* and exits; it closes with nil only when every input is exhausted and with
\* an error only when an input holds that error; and while the input it
\* receives from has no packet, no sender and is not closed, it cannot step.
C17_MergeTerminates ==
    /\ <>(pc = "done")
    /\ []((Closing /\ oarg = Nil) =>
            (h = <<>> /\ \A i \in Chans : closed[i] /\ c[i] = <<>>))
    /\ []((Closing /\ oarg # Nil) => \E i \in Chans : err[i] = oarg)
    /\ []((pc \in {"prime_recv", "main_recv"} /\ ~RecvReady(Waited))
            => ~ENABLED Coordinator)

\* C18: a non-nil error the output is closed with is the error one input was
\* closed with, and it is the first non-nil error an Err() call of the
\* coordinator returned: every earlier call returned nil, and the error is one
\* single input's error, never a combination.
C18_FirstErrorVerbatim ==
    /\ ~Closing => (lastErr = Nil /\ out_err = Nil)
    /\ (Closing /\ oarg # Nil) =>
          /\ lastErr = oarg
          /\ \E i \in Chans : oarg = ErrOf(i) /\ carg[i] = oarg /\ err[i] = oarg
    /\ out_err # Nil => out_err = oarg
    /\ ret_err # Nil => ret_err = oarg
C18_Witness ==
    /\ pc = "done"
    /\ Failed = {0, 1}
    /\ out_err = ErrOf(0)
    /\ Len(outSent) >= 1

\* packets produced on some input (sent into it or held by a blocked sender)
Produced ==
    UNION {{inSent[i][k] : k \in 1 .. Len(inSent[i])} \cup
           {spkt[i][k] : k \in 1 .. Len(spkt[i])} : i \in Chans}

\* produced packets not sent on the output: in the heap, popped and not yet
\* sent, buffered in an input, held by a blocked sender, or discarded
Unsent == Produced \ Sent

\* C19: every packet sent on the output has a timestamp less than or equal to
\* that of every produced packet not sent, and to that of anything an input
\* that has not called Close can still produce; the packets sent are
\* themselves in non-decreasing order.
C19_PrefixInvariant ==
    /\ \A j \in 1 .. Len(outSent) :
          /\ \A x \in Unsent : outSent[j].Timestamp <= x.Timestamp
          /\ \A i \in Chans :
                ppc[i] \in {"run", "send"} => outSent[j].Timestamp <= LastTs(i)
    /\ \A j, k \in 1 .. Len(outSent) :
          j <= k => outSent[j].Timestamp <= outSent[k].Timestamp
C19_Witness ==
    /\ pc = "defer"
    /\ oarg # Nil
    /\ Len(outSent) >= 1
    /\ h # <<>>
    /\ h[1].Packet.Timestamp > outSent[Len(outSent)].Timestamp

\* C20: if the output is closed with nil, every input was closed with nil and
\* every packet of every input has been sent on the output.
C20_NilCloseComplete ==
    (out_closed /\ oarg = Nil) =>
        \A i \in Chans :
            /\ closed[i]
            /\ carg[i] = Nil
            /\ FromSrc(outSent, i) = inSent[i]

====
